---------------------------- MODULE Spec2Model ----------------------------
(***************************************************************************)
(* Model of main.py of rgb_emotions: the MQTT message callback, the        *)
(* sliding window of motion timestamps (motiontimes), the LED render       *)
(* (update_leds) and the main loop that polls, renders and sleeps.         *)
(*                                                                         *)
(* Text is modelled as sequences of byte values, so that decoding,         *)
(* prefix tests, slicing, stripping and integer parsing are computed as    *)
(* the code computes them.                                                 *)
(***************************************************************************)
EXTENDS Integers, Sequences, FiniteSets, TLC

(***************************************************************************)
(* Program constants.                                                      *)
(***************************************************************************)
\* number_of_leds = 90
number_of_leds == 90

\* deque((), 60): maxlen of motiontimes
motiontimes_maxlen == 60

\* "< 60000" in the prune loop: the retention window in ms
window_ms == 60000

\* time.sleep_ms(25)
sleep_ms == 25

\* utime.ticks_ms() counts modulo this period (2^30 on MicroPython ports)
ticks_period == 1073741824

\* mqtt_topic_base = "dinky/"
mqtt_topic_base == <<100, 105, 110, 107, 121, 47>>

\* "motion"
Motion == <<109, 111, 116, 105, 111, 110>>

\* channels = ["motion"]
channels == {Motion}

\* The colours update_leds assigns to np[x].
Red == <<255, 0, 0, 0>>
Green == <<0, 255, 0, 0>>
\* fill_all_leds(0, 0, 0, 0) before the loop starts
Black == <<0, 0, 0, 0>>

(***************************************************************************)
(* Bounds of the model.                                                    *)
(***************************************************************************)
\* loop iterations explored from the initial state
MaxIter == 2

\* messages that may wait in the socket buffer
MaxPending == 2

\* longest window the prune loop is run on by itself
MaxWindow == 3

\* Time that passes from one check_msg to the next: the sleep itself and
\* longer pauses (the sleep is a lower bound on the iteration period).
SleepDeltas == {sleep_ms, window_ms - sleep_ms, window_ms}

(***************************************************************************)
(* Text helpers: bytes.decode('utf-8'), str.strip(), str.startswith(),     *)
(* slicing and int().                                                      *)
(***************************************************************************)
RECURSIVE Utf8Need(_, _, _)
\* Scans bytes from position i with `need` continuation bytes outstanding;
\* the result is TRUE iff the bytes are well-formed UTF-8.
Utf8Need(b, i, need) ==
    IF i > Len(b) THEN need = 0
    ELSE IF need > 0
         THEN IF b[i] >= 128 /\ b[i] < 192 THEN Utf8Need(b, i + 1, need - 1)
              ELSE FALSE
         ELSE IF b[i] < 128 THEN Utf8Need(b, i + 1, 0)
              ELSE IF b[i] < 192 THEN FALSE
              ELSE IF b[i] < 224 THEN Utf8Need(b, i + 1, 1)
              ELSE IF b[i] < 240 THEN Utf8Need(b, i + 1, 2)
              ELSE IF b[i] < 248 THEN Utf8Need(b, i + 1, 3)
              ELSE FALSE

\* bytes.decode('utf-8') succeeds
Decodable(b) == Utf8Need(b, 1, 0)

IsSpace(c) == c \in {9, 10, 11, 12, 13, 32}

RECURSIVE LStrip(_)
LStrip(s) == IF s # <<>> /\ IsSpace(Head(s)) THEN LStrip(Tail(s)) ELSE s

RECURSIVE RStrip(_)
RStrip(s) ==
    IF s # <<>> /\ IsSpace(s[Len(s)]) THEN RStrip(SubSeq(s, 1, Len(s) - 1))
    ELSE s

\* str.strip()
Strip(s) == RStrip(LStrip(s))

\* a mutant of StartsWith: the last byte of the prefix anywhere in the text
StartsWith_any(s, prefix) ==
    \E i \in 1..Len(s) : s[i] = prefix[Len(prefix)]

\* topic.startswith(prefix)
StartsWith(s, prefix) ==
    /\ Len(s) >= Len(prefix)
    /\ SubSeq(s, 1, Len(prefix)) = prefix

\* topic[len(prefix):]
SliceFrom(s, n) == SubSeq(s, n + 1, Len(s))

IsDigit(c) == c >= 48 /\ c <= 57

\* the digits of s after an optional sign
Unsigned(s) == IF s # <<>> /\ Head(s) \in {43, 45} THEN Tail(s) ELSE s

\* a mutant of IsIntString: every text parses
IsIntString_lenient(s) == TRUE

\* int(s) succeeds: optional surrounding whitespace, optional sign, digits
IsIntString(s) ==
    LET d == Unsigned(Strip(s)) IN
    /\ d # <<>>
    /\ \A i \in 1..Len(d) : IsDigit(d[i])

RECURSIVE DigitsValue(_)
DigitsValue(d) ==
    IF d = <<>> THEN 0
    ELSE 10 * DigitsValue(SubSeq(d, 1, Len(d) - 1))
         + (IF IsDigit(d[Len(d)]) THEN d[Len(d)] - 48 ELSE 0)

\* a mutant of ParseInt: the sign is dropped
ParseInt_nosign(s) == DigitsValue(Unsigned(Strip(s)))

\* int(s)
ParseInt(s) ==
    LET t == Strip(s) IN
    IF t # <<>> /\ Head(t) = 45 THEN 0 - DigitsValue(Unsigned(t))
    ELSE DigitsValue(Unsigned(t))

(***************************************************************************)
(* The deque of ucollections, with maxlen and no overflow flag.            *)
(***************************************************************************)
\* a mutant of DequeAppend: the deque grows without bound
DequeAppend_unbounded(dq, x) == Append(dq, x)

\* a mutant of DequeAppend: the entry is put at the head
DequeAppend_front(dq, x) == <<x>> \o dq

\* deque.append(x): a full deque drops its oldest (leftmost) entry
DequeAppend(dq, x) ==
    IF Len(dq) >= motiontimes_maxlen THEN Append(Tail(dq), x)
    ELSE Append(dq, x)

\* a mutant of DequeAppendLeft: the entry is put back at the tail
DequeAppendLeft_tail(dq, x) == Append(dq, x)

\* deque.appendleft(x): a full deque drops its newest (rightmost) entry
DequeAppendLeft(dq, x) ==
    IF Len(dq) >= motiontimes_maxlen
    THEN <<x>> \o SubSeq(dq, 1, Len(dq) - 1)
    ELSE <<x>> \o dq

(***************************************************************************)
(* The prune loop of the callback.                                         *)
(***************************************************************************)
\* a mutant of Young: an entry of age exactly 60000 is kept
Young_inclusive(now, entry) == now - entry <= window_ms

\* a mutant of Young: the comparison is turned round
Young_reversed(now, entry) == now - entry > window_ms

\* utime.ticks_ms() - currententry < 60000
Young(now, entry) == now - entry < window_ms

\* a mutant of PruneLoop: pops at most one stale entry
PruneLoop_once(dq, now) ==
    IF dq = <<>> THEN [motiontimes |-> dq, err |-> "IndexError"]
    ELSE IF Young(now, Head(dq))
         THEN [motiontimes |-> dq, err |-> "none"]
         ELSE [motiontimes |-> Tail(dq), err |-> "none"]

RECURSIVE PruneLoop(_, _)
\* while checking: popleft; if young, appendleft and stop.  popleft of an
\* empty deque raises IndexError.
PruneLoop(dq, now) ==
    IF dq = <<>> THEN [motiontimes |-> dq, err |-> "IndexError"]
    ELSE IF Young(now, Head(dq))
         THEN [motiontimes |-> DequeAppendLeft(Tail(dq), Head(dq)),
               err |-> "none"]
         ELSE PruneLoop(Tail(dq), now)

(***************************************************************************)
(* Inbound messages: (topic bytes, payload bytes) pairs as delivered by    *)
(* the MQTT client.  kind and val label each input with what the topic     *)
(* and payload are by the interface format; the callback reads only the    *)
(* bytes.                                                                  *)
(***************************************************************************)
T_motion == mqtt_topic_base \o Motion
\* "dinky/door"
T_door == <<100, 105, 110, 107, 121, 47, 100, 111, 111, 114>>
\* "other/topic"
T_other == <<111, 116, 104, 101, 114, 47, 116, 111, 112, 105, 99>>
\* not UTF-8
BadBytes == <<255>>
\* "not-a-number"
NotANumber == <<110, 111, 116, 45, 97, 45, 110, 117, 109, 98, 101, 114>>

Msg(t, p, k, v) == [topic |-> t, payload |-> p, kind |-> k, val |-> v]

Messages ==
    { Msg(T_motion, <<49>>, "valid", 1),              \* "1"
      Msg(T_motion, <<48>>, "valid", 0),              \* "0"
      Msg(T_motion, <<32, 45, 50, 10>>, "valid", 0 - 2),   \* " -2\n"
      Msg(T_motion, NotANumber, "malformed", 0),
      Msg(T_motion, BadBytes, "undecodable", 0),
      Msg(T_door, <<49>>, "unknown", 1),
      Msg(T_door, NotANumber, "unknown", 0),
      Msg(T_other, <<49>>, "offprefix", 1),
      Msg(T_other, NotANumber, "offprefix", 0),
      Msg(BadBytes, <<49>>, "undecodable", 1) }

NoMsg == Msg(<<>>, <<>>, "none", 0)

(***************************************************************************)
(* State.                                                                  *)
(***************************************************************************)
VARIABLES
    pc,           \* position of the main loop: "check_msg", "update_leds",
                  \* "sleep", or "aborted" after an uncaught exception
    clock,        \* utime.ticks_ms()
    state,        \* state: channel -> latest integer
    motiontimes,  \* deque of timestamps, oldest first
    np,           \* the pixel buffer, index 0..number_of_leds-1
    inbox,        \* messages waiting in the client's socket, oldest first
    lastMsg,      \* the message the callback got in this iteration
    lastResult,   \* outcome of this iteration's check_msg
    prunedAt,     \* clock reading of the last completed prune loop
    writes,       \* np.write() calls in the current iteration
    iter          \* iterations completed

vars == <<pc, clock, state, motiontimes, np, inbox, lastMsg, lastResult,
          prunedAt, writes, iter>>

Pixels == 0..(number_of_leds - 1)

Errors == {"UnicodeError", "ValueError", "IndexError"}

(***************************************************************************)
(* def mqtt_message_callback(topic, msg).  t0 is the clock read by the     *)
(* append, t1 the clock read by the prune loop; the loop polls with both   *)
(* reads in the same millisecond.  The result names the outcome and the    *)
(* globals as the call leaves them.                                        *)
(***************************************************************************)
\* a mutant of KnownChannel: every channel name is taken
KnownChannel_any(channel) == TRUE

\* channel in channels
KnownChannel(channel) == channel \in channels

\* d[k] = v on a dict: the key is overwritten, or added when it is new
DictSet(d, k, v) ==
    [x \in (DOMAIN d) \cup {k} |-> IF x = k THEN v ELSE d[x]]

Outcome(r, st, mt, t) ==
    [result |-> r, state |-> st, motiontimes |-> mt, now |-> t]

mqtt_message_callback(topic, msg, st, mt, t0, t1) ==
    IF ~Decodable(topic) THEN Outcome("UnicodeError", st, mt, t0)
    ELSE IF ~Decodable(msg) THEN Outcome("UnicodeError", st, mt, t0)
    ELSE
      LET text == Strip(msg) IN
      IF ~StartsWith(topic, mqtt_topic_base)
      THEN Outcome("ignored", st, mt, t0)
      ELSE
        LET channel == SliceFrom(topic, Len(mqtt_topic_base)) IN
        \* print("msg: ", int(msg)) comes before the channel test
        IF ~IsIntString(text) THEN Outcome("ValueError", st, mt, t0)
        ELSE IF ~KnownChannel(channel) THEN Outcome("ignored", st, mt, t0)
        ELSE
          LET st2 == DictSet(st, channel, ParseInt(text))
              pruned == PruneLoop(DequeAppend(mt, t0), t1)
          IN  Outcome(IF pruned.err = "none" THEN "stored" ELSE pruned.err,
                      st2, pruned.motiontimes, t1)

(***************************************************************************)
(* def update_leds()                                                       *)
(***************************************************************************)
\* a mutant of PixelColour: any non-zero motion value is red
PixelColour_nonzero(st) == IF st[Motion] # 0 THEN Red ELSE Green

\* a mutant of PixelColour: the two colours are exchanged
PixelColour_swapped(st) == IF st[Motion] = 1 THEN Green ELSE Red

\* the colour update_leds gives every pixel
PixelColour(st) == IF st[Motion] = 1 THEN Red ELSE Green

(***************************************************************************)
(* Initial state: the globals as the module body leaves them when the      *)
(* loop is entered.                                                        *)
(***************************************************************************)
Init ==
    /\ pc = "check_msg"
    /\ clock = 0
    /\ state = [c \in channels |-> 0]
    /\ motiontimes = <<>>
    /\ np = [x \in Pixels |-> Black]
    /\ inbox = <<>>
    /\ lastMsg = NoMsg
    /\ lastResult = "none"
    /\ prunedAt = 0
    /\ writes = 0
    /\ iter = 0

(***************************************************************************)
(* Actions.                                                                *)
(***************************************************************************)
\* The broker delivers a message into the socket buffer.  The buffer is
\* read by check_msg alone, so a message that comes in while the loop
\* renders or sleeps is taken as arriving before the next poll.
Arrive ==
    /\ pc = "check_msg"
    /\ Len(inbox) < MaxPending
    /\ \E m \in Messages : inbox' = Append(inbox, m)
    /\ UNCHANGED <<pc, clock, state, motiontimes, np, lastMsg, lastResult,
                   prunedAt, writes, iter>>

\* client.check_msg(): at most one waiting message, the oldest, is handed
\* to the callback; an exception of the callback leaves the loop.
check_msg ==
    /\ pc = "check_msg"
    /\ IF inbox = <<>>
       THEN /\ lastResult' = "no_message"
            /\ pc' = "update_leds"
            /\ UNCHANGED <<clock, state, motiontimes, inbox, lastMsg,
                           prunedAt>>
       ELSE LET m == Head(inbox)
                r == mqtt_message_callback(m.topic, m.payload, state,
                                           motiontimes, clock, clock)
            IN  /\ inbox' = Tail(inbox)
                /\ lastMsg' = m
                /\ lastResult' = r.result
                /\ state' = r.state
                /\ motiontimes' = r.motiontimes
                /\ clock' = r.now
                /\ prunedAt' = IF r.result = "stored" THEN r.now
                               ELSE prunedAt
                /\ pc' = IF r.result \in Errors THEN "aborted"
                         ELSE "update_leds"
    /\ UNCHANGED <<np, writes, iter>>

\* a mutant of update_leds: the render clears the motion value it has shown
update_leds_clearing ==
    /\ pc = "update_leds"
    /\ np' = [x \in Pixels |-> PixelColour(state)]
    /\ state' = [c \in DOMAIN state |-> 0]
    /\ writes' = writes + 1
    /\ pc' = "sleep"
    /\ UNCHANGED <<clock, motiontimes, inbox, lastMsg, lastResult,
                   prunedAt, iter>>

\* update_leds(): every pixel is set, then np.write() once.
update_leds ==
    /\ pc = "update_leds"
    /\ np' = [x \in Pixels |-> PixelColour(state)]
    /\ writes' = writes + 1
    /\ pc' = "sleep"
    /\ UNCHANGED <<clock, state, motiontimes, inbox, lastMsg, lastResult,
                   prunedAt, iter>>

\* time.sleep_ms(25), and the next iteration begins.
sleep ==
    /\ pc = "sleep"
    /\ iter < MaxIter
    /\ \E d \in SleepDeltas : clock' = (clock + d) % ticks_period
    /\ iter' = iter + 1
    /\ writes' = 0
    /\ lastMsg' = NoMsg
    /\ lastResult' = "none"
    /\ pc' = "check_msg"
    /\ UNCHANGED <<state, motiontimes, np, inbox, prunedAt>>

Next == Arrive \/ check_msg \/ update_leds \/ sleep

Spec == Init /\ [][Next]_vars

(***************************************************************************)
(* A burst: the state the loop is in after a valid "1" was dispatched in   *)
(* each of k consecutive iterations, 25 ms apart, from the initial state,  *)
(* with k one short of the deque's maxlen or equal to it.                  *)
(***************************************************************************)
InitBurst ==
    \E k \in {motiontimes_maxlen - 1, motiontimes_maxlen} :
        /\ pc = "check_msg"
        /\ clock = k * sleep_ms
        /\ state = [c \in channels |-> 1]
        /\ motiontimes = [i \in 1..k |-> (i - 1) * sleep_ms]
        /\ np = [x \in Pixels |-> Red]
        /\ inbox = <<>>
        /\ lastMsg = NoMsg
        /\ lastResult = "none"
        /\ prunedAt = (k - 1) * sleep_ms
        /\ writes = 0
        /\ iter = 0

SpecBurst == InitBurst /\ [][Next]_vars

(***************************************************************************)
(* The loop shortly before the millisecond counter wraps: no message has   *)
(* been dispatched so far and ticks_ms() is one sleep short of its period. *)
(***************************************************************************)
InitWrap ==
    /\ pc = "check_msg"
    /\ clock = ticks_period - sleep_ms
    /\ state = [c \in channels |-> 0]
    /\ motiontimes = <<>>
    /\ np = [x \in Pixels |-> Green]
    /\ inbox = <<>>
    /\ lastMsg = NoMsg
    /\ lastResult = "none"
    /\ prunedAt = 0
    /\ writes = 0
    /\ iter = 0

SpecWrap == InitWrap /\ [][Next]_vars

(***************************************************************************)
(* The prune loop by itself (lines 61-66), run on a window and a clock     *)
(* reading drawn from bounded sets: windows in time order, oldest first,   *)
(* with no timestamp later than the clock, the empty window included.      *)
(***************************************************************************)
PruneTimes ==
    {0, sleep_ms, window_ms, window_ms + sleep_ms, 2 * window_ms}

PruneClocks == {window_ms, window_ms + sleep_ms, 2 * window_ms + sleep_ms}

IsSorted(w) == \A i \in 1..(Len(w) - 1) : w[i] <= w[i + 1]

PruneWindows(now) ==
    { w \in UNION { [1..n -> {t \in PruneTimes : t <= now}] :
                      n \in 0..MaxWindow } : IsSorted(w) }

InitPrune ==
    \E now \in PruneClocks : \E w \in PruneWindows(now) :
        /\ pc = "prune"
        /\ clock = now
        /\ state = [c \in channels |-> 0]
        /\ motiontimes = w
        /\ np = [x \in Pixels |-> Black]
        /\ inbox = <<>>
        /\ lastMsg = NoMsg
        /\ lastResult = "none"
        /\ prunedAt = 0
        /\ writes = 0
        /\ iter = 0

\* One run of the prune loop at the clock reading of the state; iter counts
\* the runs, and an exception of the loop is recorded as the run's outcome.
prune ==
    /\ pc = "prune"
    /\ iter < MaxIter
    /\ LET r == PruneLoop(motiontimes, clock)
       IN  /\ motiontimes' = r.motiontimes
           /\ lastResult' = IF r.err = "none" THEN "pruned" ELSE r.err
    /\ iter' = iter + 1
    /\ UNCHANGED <<pc, clock, state, np, inbox, lastMsg, prunedAt, writes>>

NextPrune == prune

SpecPrune == InitPrune /\ [][NextPrune]_vars

(***************************************************************************)
(* Properties.                                                             *)
(***************************************************************************)
\* This step is check_msg handing the oldest waiting message to the callback.
Dispatching == pc = "check_msg" /\ pc' # "check_msg" /\ inbox # <<>>

\* age of every retained timestamp, measured at clock value t
AllYoungAt(t) ==
    \A i \in 1..Len(motiontimes) : t - motiontimes[i] < window_ms

\* C1: last write wins.  Dispatching a message on base prefix + known
\* channel with a valid integer payload leaves state[channel] equal to that
\* message's integer (any integer, no range check), and no step other than
\* a dispatch changes state, so the stored value is always that of the most
\* recent such message.
C1_LastWriteWins ==
    [][ /\ (Dispatching /\ Head(inbox).kind = "valid")
            => state'[Motion] = Head(inbox).val
        /\ ~Dispatching => state' = state ]_vars

\* C1 witness: " -2\n" was dispatched over a stored 1 (the strip still shows
\* red) and the stored value is now -2.
C1_Witness ==
    /\ pc = "update_leds"
    /\ lastResult = "stored"
    /\ lastMsg.val = 0 - 2
    /\ state[Motion] = 0 - 2
    /\ np[0] = Red

\* C2 (as claimed): no per-message error aborts the main loop.
C2_LoopNeverAborts == pc # "aborted"

\* C3: right after the append and prune of a successful dispatch, every
\* retained timestamp has age (now - timestamp) < 60000 ms.
C3_AgeAfterPrune ==
    (pc = "update_leds" /\ lastResult = "stored") => AllYoungAt(clock)

\* C3 witness: a dispatch at 60000 ms pruned the entry of 0 ms (age 60000)
\* and kept the entry of 25 ms (age 59975) before its own.
C3_Witness ==
    /\ pc = "update_leds"
    /\ lastResult = "stored"
    /\ motiontimes = <<sleep_ms, window_ms>>

\* C4: the window never holds more than 60 timestamps, and a record that
\* arrives while 60 entries younger than 60000 ms are retained evicts the
\* oldest one alone: the 59 newer entries and the new timestamp remain, in
\* order.
C4_CapacityBound ==
    [][ /\ Len(motiontimes) <= motiontimes_maxlen
        /\ Len(motiontimes') <= motiontimes_maxlen
        /\ ( /\ Dispatching
             /\ Head(inbox).kind = "valid"
             /\ Len(motiontimes) = motiontimes_maxlen
             /\ AllYoungAt(clock) )
            => motiontimes' = Append(Tail(motiontimes), clock) ]_vars

\* C4 witness: after the 61st record of a burst the window holds 60
\* entries, the entry of 0 ms is gone and the newest is the tail.
C4_Witness ==
    /\ lastResult = "stored"
    /\ Len(motiontimes) = motiontimes_maxlen
    /\ motiontimes[1] = sleep_ms
    /\ motiontimes[motiontimes_maxlen] = clock
    /\ clock = motiontimes_maxlen * sleep_ms

\* C5 (as claimed): a message on the base prefix with an unknown channel is
\* ignored without an error, whatever its payload, and changes nothing.
C5_UnknownChannelSilent ==
    [][ (Dispatching /\ Head(inbox).kind = "unknown")
            => /\ lastResult' = "ignored"
               /\ state' = state
               /\ motiontimes' = motiontimes ]_vars

\* C6: a non-integer payload on a known channel raises the parse error and
\* leaves state and the event window as they were.
C6_MalformedNoChange ==
    [][ (Dispatching /\ Head(inbox).kind = "malformed")
            => /\ lastResult' = "ValueError"
               /\ state' = state
               /\ motiontimes' = motiontimes ]_vars

\* C6 witness: "not-a-number" on dinky/motion was rejected with a non-empty
\* window and a non-default stored value left in place.
C6_Witness ==
    /\ lastMsg.kind = "malformed"
    /\ lastResult = "ValueError"
    /\ motiontimes # <<>>
    /\ state[Motion] # 0

\* C7: a topic outside the base prefix is a silent no-op for every payload,
\* integer or not: no error, state and event window unchanged, and the loop
\* goes on to render.
C7_OffPrefixNoOp ==
    [][ (Dispatching /\ Head(inbox).kind = "offprefix")
            => /\ lastResult' = "ignored"
               /\ pc' = "update_leds"
               /\ state' = state
               /\ motiontimes' = motiontimes ]_vars

\* C7 witness: ("other/topic", "not-a-number") was ignored with a non-empty
\* window.
C7_Witness ==
    /\ lastMsg.topic = T_other
    /\ lastMsg.payload = NotANumber
    /\ lastResult = "ignored"
    /\ motiontimes # <<>>

\* C8: after every render all pixels hold one colour: red (255,0,0,0) if
\* the stored motion value is 1 and green (0,255,0,0) for any other value.
C8_RenderPolicy ==
    pc = "sleep" =>
        \A x \in Pixels :
            np[x] = IF state[Motion] = 1 THEN <<255, 0, 0, 0>>
                    ELSE <<0, 255, 0, 0>>

\* C8 witness: a render with the stored value -2 gave green.
C8_Witness ==
    /\ pc = "sleep"
    /\ state[Motion] = 0 - 2
    /\ np[number_of_leds - 1] = Green

\* C9 (as claimed): in every state every retained timestamp has age
\* < 60000 ms.
C9_NeverStale == AllYoungAt(clock)

\* C9 (amended): in every state every retained timestamp had age < 60000 ms
\* at the end of the most recent successful dispatch.
C9_YoungAtLastPrune == AllYoungAt(prunedAt)

\* C9 witness: an iteration without a message, with a timestamp of age
\* >= 60000 ms still in the window.
C9_Witness ==
    /\ pc = "update_leds"
    /\ lastResult = "no_message"
    /\ motiontimes # <<>>
    /\ clock - motiontimes[1] >= window_ms

\* C10 (as claimed): every iteration polls at most one message, the oldest,
\* then renders and commits exactly once, then sleeps.
C10_IterationShape ==
    [][ pc' # pc =>
        /\ pc = "check_msg" =>
              /\ pc' = "update_leds"
              /\ inbox = <<>> => (inbox' = inbox /\ lastMsg' = NoMsg)
              /\ inbox # <<>> => (inbox' = Tail(inbox)
                                  /\ lastMsg' = Head(inbox))
        /\ pc = "update_leds" => (pc' = "sleep" /\ writes' = 1)
        /\ pc = "sleep" => pc' = "check_msg" ]_vars

\* C11: no render lag.  Every commit writes the render of the channel state
\* as the most recent successful dispatch left it: a value stored in this
\* iteration is the one this iteration's commit shows, and with no store in
\* this iteration the commit shows the value stored before (initially 0).
C11_NoRenderLag ==
    [][ (pc = "update_leds" /\ pc' = "sleep") =>
        /\ writes' = 1
        /\ \A x \in Pixels :
              np'[x] = IF lastResult = "stored"
                       THEN (IF lastMsg.val = 1 THEN Red ELSE Green)
                       ELSE (IF state[Motion] = 1 THEN Red ELSE Green)
        /\ lastResult # "stored" => state' = state ]_vars

\* C11 witness: in an iteration after the first, "1" was stored and the
\* commit of that same iteration shows red.
C11_Witness ==
    /\ pc = "sleep"
    /\ iter >= 1
    /\ lastResult = "stored"
    /\ lastMsg.val = 1
    /\ writes = 1
    /\ np[0] = Red

\* the time from timestamp t to clock value now, modulo the counter's period
TicksDiff(now, t) == (now - t) % ticks_period

\* C12 (as claimed): the prune of a successful dispatch decides by the age
\* modulo the clock's period, so also across a wrap of the clock it keeps
\* exactly the entries (the new one included) of age < 60000 ms.
C12_WrapSafePrune ==
    [][ (Dispatching /\ Head(inbox).kind = "valid")
            => motiontimes' =
                 SelectSeq(Append(motiontimes, clock),
                           LAMBDA t : TicksDiff(clock, t) < window_ms) ]_vars

C14_PruneIdempotent ==
    [][ (pc = "prune" /\ iter >= 1 /\ iter' = iter + 1)
            => motiontimes' = motiontimes ]_vars

\* C14 witness: the prune step has run twice at one clock reading and the
\* window holds two entries, the head 59975 ms old (the oldest age the
\* loop keeps here).
C14_Witness ==
    /\ pc = "prune"
    /\ iter = 2
    /\ lastResult = "pruned"
    /\ Len(motiontimes) = 2
    /\ clock - motiontimes[1] = window_ms - sleep_ms

\* This step is update_leds.
Rendering == pc = "update_leds" /\ pc' = "sleep"

\* C15: render is read-only and repeatable.  update_leds changes neither
\* state nor the event window; a render that follows an earlier render with
\* no value stored in between produces the same pixel buffer; and state is
\* changed by no step other than a dispatch.
C15_RenderReadOnly ==
    [][ /\ Rendering => (state' = state /\ motiontimes' = motiontimes)
        /\ (Rendering /\ iter >= 1 /\ lastResult \in {"no_message", "ignored"})
              => np' = np
        /\ state' # state => Dispatching ]_vars

\* C15 witness: a second render, after an iteration that stored nothing,
\* shows red again for a stored 1.
C15_Witness ==
    /\ pc = "sleep"
    /\ iter >= 1
    /\ lastResult \in {"no_message", "ignored"}
    /\ state[Motion] = 1
    /\ np[0] = Red

\* C16: the key set of state is fixed.  In every reachable state, whatever
\* messages were dispatched, state has exactly one entry per known channel
\* and none for any other name.
C16_KeySetFixed == DOMAIN state = channels

\* C16 witness: a message on the unknown channel "door" was dispatched
\* after a value had been stored for "motion".
C16_Witness ==
    /\ lastMsg.topic = T_door
    /\ lastResult = "ignored"
    /\ state[Motion] # 0
    /\ DOMAIN state = {Motion}

\* w is what is left of a after entries were removed from its head
IsSuffix(w, a) ==
    \E k \in 0..Len(a) : w = SubSeq(a, k + 1, Len(a))

\* C17: every successful dispatch records one event.  A message on a known
\* channel with a valid integer payload, 0 included, stores its value and
\* appends the current clock reading at the tail of the window, which is
\* then pruned from the head: afterwards the window is a non-empty suffix
\* of the old window plus the new timestamp, and its tail is that timestamp.
C17_DispatchRecords ==
    [][ (Dispatching /\ Head(inbox).kind = "valid")
            => /\ lastResult' = "stored"
               /\ state'[Motion] = Head(inbox).val
               /\ motiontimes' # <<>>
               /\ motiontimes'[Len(motiontimes')] = clock'
               /\ IsSuffix(motiontimes', Append(motiontimes, clock)) ]_vars

\* C17 witness: "0" was dispatched with an entry already in the window; the
\* window holds the older entry and, at its tail, the new timestamp.
C17_Witness ==
    /\ pc = "update_leds"
    /\ lastResult = "stored"
    /\ lastMsg.val = 0
    /\ Len(motiontimes) = 2
    /\ motiontimes[2] = clock
    /\ motiontimes[1] < clock

\* C18: window ordering.  In every reachable state (the clock not having
\* wrapped) the timestamps are in non-decreasing order from head to tail,
\* so no entry of age >= 60000 ms stands behind a younger one.
C18_WindowOrdered ==
    /\ \A i \in 1..(Len(motiontimes) - 1) :
          motiontimes[i] <= motiontimes[i + 1]
    /\ \A i, j \in 1..Len(motiontimes) :
          (i < j /\ clock - motiontimes[i] < window_ms)
              => clock - motiontimes[j] < window_ms

\* C18 witness: three dispatches 25 ms apart left three timestamps in
\* order of arrival.
C18_Witness == motiontimes = <<0, sleep_ms, 2 * sleep_ms>>

\* C19: the prune loop of a dispatch never pops from an empty window.  No
\* dispatch ends in the IndexError of popleft, and after every successful
\* dispatch the window is non-empty with the entry that dispatch appended
\* at its tail: the loop stops on that entry at the latest.
C19_NoPopFromEmpty ==
    /\ lastResult # "IndexError"
    /\ lastResult = "stored"
          => (motiontimes # <<>> /\ motiontimes[Len(motiontimes)] = prunedAt)

\* C19 witness: a dispatch at 60000 ms or later left its own timestamp as
\* the only entry, the loop having stopped on it.
C19_Witness ==
    /\ pc = "update_leds"
    /\ lastResult = "stored"
    /\ clock >= window_ms
    /\ motiontimes = <<clock>>

=============================================================================
